---- MODULE Spec2Model ----
(***************************************************************************)
(* A model of package log (src/log.go): a process-wide zap logger that is  *)
(* installed by Init / SizeRolling / DateRolling or lazily by Default, and *)
(* the log functions Info .. Fatalf that emit through it.                  *)
(*                                                                         *)
(* Strings are sequences of one-character strings, so that ToUpper, Ext    *)
(* and TrimSuffix are computed character by character as the Go library    *)
(* does.  Durations are counted in days (time.Hour * 24 is 1).  Go's int   *)
(* and uint are IntBits wide, two's complement.                            *)
(***************************************************************************)
EXTENDS Integers, Sequences, FiniteSets, TLC

\* ------------------------------------------------------------------ bounds
IntBits == 5          \* width of int / uint in the model
MaxPathLen == 4       \* longest generated file path
MaxLvLen == 2         \* longest generated unrecognised level string
NThreads == 2         \* goroutines calling the package
MaxCalls == 3         \* API calls made in one behaviour

\* a nil pointer is the empty sequence, a pointer to x is <<x>>
Nil == <<>>
Ptr(x) == <<x>>
Deref(p) == p[1]

\* ----------------------------------------------------------------- strings
Lower == <<"a","b","c","d","e","f","g","h","i","j","k","l","m",
           "n","o","p","q","r","s","t","u","v","w","x","y","z">>
Upper == <<"A","B","C","D","E","F","G","H","I","J","K","L","M",
           "N","O","P","Q","R","S","T","U","V","W","X","Y","Z">>

\* unicode.ToUpper on one character
UpperChar(c) ==
    IF \E i \in 1..Len(Lower) : Lower[i] = c
    THEN Upper[CHOOSE i \in 1..Len(Lower) : Lower[i] = c]
    ELSE c

\* a faulty variant of ToUpper: the string is left as it is
ToUpperIdentity(s) == s

\* strings.ToUpper
ToUpper(s) == [i \in 1..Len(s) |-> UpperChar(s[i])]

\* strings.HasSuffix
HasSuffix(s, suffix) ==
    /\ Len(s) >= Len(suffix)
    /\ SubSeq(s, Len(s) - Len(suffix) + 1, Len(s)) = suffix

\* strings.TrimSuffix
TrimSuffix(s, suffix) ==
    IF HasSuffix(s, suffix) THEN SubSeq(s, 1, Len(s) - Len(suffix)) ELSE s

\* os.IsPathSeparator: '/' everywhere, and '\' as well on windows
IsPathSeparator(goos, c) ==
    \/ c = "/"
    \/ goos = "windows" /\ c = "\\"

RECURSIVE ExtFrom(_, _, _)
\* the loop of filepath.Ext, from index i down to the start of the last element
ExtFrom(goos, path, i) ==
    IF i < 1 \/ IsPathSeparator(goos, path[i]) THEN <<>>
    ELSE IF path[i] = "." THEN SubSeq(path, i, Len(path))
    ELSE ExtFrom(goos, path, i - 1)

RECURSIVE ExtWholePathFrom(_, _, _)
\* the loop of the faulty variant of Ext below: path separators are not looked at
ExtWholePathFrom(goos, path, i) ==
    IF i < 1 THEN <<>>
    ELSE IF path[i] = "." THEN SubSeq(path, i, Len(path))
    ELSE ExtWholePathFrom(goos, path, i - 1)

\* a faulty variant of Ext: the final dot of the whole path, directories included
ExtWholePath(goos, path) == ExtWholePathFrom(goos, path, Len(path))

\* filepath.Ext
Ext(goos, path) == ExtFrom(goos, path, Len(path))

\* ------------------------------------------------------------------ levels
DebugLevel == -1
InfoLevel == 0
WarnLevel == 1
ErrorLevel == 2
DPanicLevel == 3
PanicLevel == 4
FatalLevel == 5

Levels == {DebugLevel, InfoLevel, WarnLevel, ErrorLevel,
           DPanicLevel, PanicLevel, FatalLevel}

S_DEBUG == <<"D","E","B","U","G">>
S_INFO == <<"I","N","F","O">>
S_WARN == <<"W","A","R","N">>
S_ERROR == <<"E","R","R","O","R">>
S_DPANIC == <<"D","P","A","N","I","C">>
S_PANIC == <<"P","A","N","I","C">>
S_FATAL == <<"F","A","T","A","L">>

\* logLv: the level a level string selects, and what it prints to standard
\* output (the strings given to fmt.Printf's %s, in order)
logLv(logLevel) ==
    LET u == ToUpper(logLevel) IN
    CASE u = S_DEBUG -> [level |-> DebugLevel, out |-> <<>>]
      [] u = S_INFO \/ u = <<>> -> [level |-> InfoLevel, out |-> <<>>]
      [] u = S_WARN -> [level |-> WarnLevel, out |-> <<>>]
      [] u = S_ERROR -> [level |-> ErrorLevel, out |-> <<>>]
      [] u = S_DPANIC -> [level |-> DPanicLevel, out |-> <<>>]
      [] u = S_PANIC -> [level |-> PanicLevel, out |-> <<>>]
      [] u = S_FATAL -> [level |-> FatalLevel, out |-> <<>>]
      [] OTHER -> [level |-> InfoLevel, out |-> <<logLevel>>]

\* ---------------------------------------------------------------- rotation
dateRollingSuffix == <<".","%","Y","%","m","%","d">>
RollingBySize == 0
RollingByDate == 1

IntMin == -(2^(IntBits - 1))
IntMax == 2^(IntBits - 1) - 1
IntRange == IntMin..IntMax

\* the conversion uint(x) of an int
ToUint(x) == x % (2^IntBits)

\* the conversion int(u) of a uint
ToInt(u) == IF u > IntMax THEN u - 2^IntBits ELSE u

\* RotateLogs, the file name pattern
PatternOf(goos, filePath) ==
    LET ext == Ext(goos, filePath) IN
    IF Len(ext) > 0
    THEN TrimSuffix(filePath, ext) \o dateRollingSuffix \o ext
    ELSE filePath \o dateRollingSuffix

\* a faulty variant of RetentionOf: >= in place of >
RetentionOfGe(maxBackups, maxAge) ==
    IF ToInt(maxBackups) >= maxAge
    THEN [kind |-> "MaxAge", days |-> maxAge]
    ELSE [kind |-> "RotationCount", count |-> maxBackups]

\* RotateLogs, the retention option; maxBackups is a uint
RetentionOf(maxBackups, maxAge) ==
    IF ToInt(maxBackups) > maxAge
    THEN [kind |-> "MaxAge", days |-> maxAge]
    ELSE [kind |-> "RotationCount", count |-> maxBackups]

\* RotateLogs: the pattern and the options handed to rotatelogs.New
RotateLogs(goos, filePath, maxBackups, maxAge) ==
    [kind |-> "rotatelogs", pattern |-> PatternOf(goos, filePath),
     linkName |-> filePath,
     rotationDays |-> 1,
     retention |-> RetentionOf(maxBackups, maxAge)]


\* ------------------------------------------------------------------- state
VARIABLES
    Logger,     \* var Logger *zap.Logger: Nil or Ptr([origin, cores])
    Sugar,      \* var Sugar *zap.SugaredLogger: Nil or Ptr([base |-> a Logger value])
    once,       \* var once sync.Once: [done, m], m the goroutine holding the mutex or 0
    env,        \* the environment variable DEBUG: Nil when unset, else Ptr(value)
    goos,       \* the operating system the package is built for
    process,    \* "running", "crashed" (a panic nobody recovered) or "exited"
    th,         \* th[t]: goroutine t's position and the locals of its call
    stdout,     \* the level strings logLv has reported as invalid
    hist,       \* what has happened so far (calls made, runs of the once body)
    lv,         \* a call of logLv on its own: [pc, in, out]
    rot         \* a call of RotateLogs as DateRolling makes it: [pc, in, out]

vars == <<Logger, Sugar, once, env, goos, process, th, stdout, hist, lv, rot>>

Threads == 1..NThreads

LogFns == {"Info", "Infof", "Debug", "Debugf", "Warn", "Warnf",
           "Error", "Errorf", "Fatal", "Fatalf"}

\* the level each log function emits at
LevelOfFn(fn) ==
    CASE fn \in {"Info", "Infof"} -> InfoLevel
      [] fn \in {"Debug", "Debugf"} -> DebugLevel
      [] fn \in {"Warn", "Warnf"} -> WarnLevel
      [] fn \in {"Error", "Errorf"} -> ErrorLevel
      [] fn \in {"Fatal", "Fatalf"} -> FatalLevel

\* the log functions and the arguments the callers of the model use
SpecLogFns == {"Debugf", "Fatal"}
AppLog == <<"a","p","p",".","l","o","g">>
SpecLevels == {<<"d","e","b","u","g">>}
SpecStdout == {<<TRUE>>}
SpecRolling == {RollingBySize, RollingByDate, 2}
SpecRetention == {<<3, 10>>}
EnvValues == {Nil, Ptr(<<>>), Ptr(<<"t","r","u","e">>)}

NoArgs == [none |-> TRUE]
IdleFrame == [pc |-> "idle", api |-> "none", args |-> NoArgs, writer |-> Nil,
              err |-> Nil, debugEnabled |-> <<>>, emitted |-> Nil]

Frame(api, pc, args) == [IdleFrame EXCEPT !.pc = pc, !.api = api, !.args = args]

RollingArgs == [filename : {AppLog}, logLevel : SpecLevels, maxSize : {100},
                retention : SpecRetention, rollingBy : SpecRolling,
                stdout : SpecStdout]

\* os.Getenv: the empty string when the variable is unset
Getenv(e) == IF e = Nil THEN <<>> ELSE Deref(e)

\* logCore: the file core
logCore(fileWriterSyncer, level) ==
    [enc |-> "production", writer |-> fileWriterSyncer, level |-> level]

\* devCore: the console core, when stdout[0] is given and true
devCore(stdoutArg, level) ==
    IF Len(stdoutArg) > 0 /\ stdoutArg[1]
    THEN <<[enc |-> "development", writer |-> [kind |-> "os.Stdout"], level |-> level]>>
    ELSE <<>>

\* zap.New(zapcore.NewTee(cores...), ...) as SizeRolling / DateRolling build it
RollingLogger(origin, fileWriterSyncer, level, stdoutArg) ==
    Ptr([origin |-> origin,
         cores |-> <<logCore(fileWriterSyncer, level)>> \o devCore(stdoutArg, level)])

\* the lumberjack.Logger of SizeRolling
Lumberjack(a) ==
    [kind |-> "lumberjack", Filename |-> a.filename, MaxSize |-> a.maxSize,
     LocalTime |-> TRUE, MaxBackups |-> a.retention[1], MaxAge |-> a.retention[2],
     Compress |-> TRUE]

\* a faulty variant of DefaultLevel: the switch is read the wrong way round
DefaultLevelInverted(debugEnabled) ==
    IF Len(debugEnabled) = 0 THEN DebugLevel ELSE InfoLevel

\* Default: the level the DEBUG switch selects
DefaultLevel(debugEnabled) ==
    IF Len(debugEnabled) > 0 THEN DebugLevel ELSE InfoLevel

\* Default: the console-only logger
DefaultLogger(debugEnabled) ==
    Ptr([origin |-> "Default",
         cores |-> <<[enc |-> "development", writer |-> [kind |-> "os.Stdout"],
                      level |-> DefaultLevel(debugEnabled)]>>])

\* Logger.Sugar()
SugarOf(logger) == Ptr([base |-> logger])

\* the cores of a logger that write a record of the given level
WrittenBy(logger, level) ==
    {i \in 1..Len(Deref(logger).cores) : Deref(logger).cores[i].level <= level}

Running == process = "running"

At(t, pc) == Running /\ th[t].pc = pc

Goto(t, pc) == th' = [th EXCEPT ![t].pc = pc]

Return(t) == th' = [th EXCEPT ![t] = IdleFrame]

\* Goroutines are interchangeable, so they are numbered in the order of their
\* first call: t may call once every goroutine below it has.
CanCall(t) ==
    /\ At(t, "idle")
    /\ hist.calls < MaxCalls
    /\ t <= hist.started + 1

Max(a, b) == IF a >= b THEN a ELSE b

Counted(t) == [hist EXCEPT !.calls = @ + 1, !.started = Max(@, t)]

Called(t, frame, field) ==
    /\ th' = [th EXCEPT ![t] = frame]
    /\ hist' = [Counted(t) EXCEPT ![field] = TRUE]

MainInit ==
    /\ Logger = Nil
    /\ Sugar = Nil
    /\ once = [done |-> FALSE, m |-> 0]
    /\ process = "running"
    /\ th = [t \in Threads |-> IdleFrame]
    /\ stdout = {}
    /\ hist = [calls |-> 0, started |-> 0, explicit |-> FALSE,
               explicitDone |-> FALSE, directDefault |-> FALSE,
               bodyRuns |-> 0, bodyDone |-> FALSE, envAtDefault |-> Nil]

\* the process starts with DEBUG unset; callers set it with Setenv
Init ==
    /\ MainInit
    /\ env = Nil
    /\ goos = "linux"
    /\ lv = [pc |-> "off", in |-> <<>>, out |-> Nil]
    /\ rot = [pc |-> "off", in |-> Nil, out |-> Nil]

\* ------------------------------------------------------- the callers' calls
\* os.Setenv("DEBUG", v) or os.Unsetenv("DEBUG") by a caller
Setenv(t) ==
    /\ CanCall(t)
    /\ \E v \in EnvValues :
        /\ v # env
        /\ env' = v
    /\ hist' = Counted(t)
    /\ UNCHANGED <<Logger, Sugar, once, goos, process, th, stdout, lv, rot>>

\* Init is called: the switch on rollingBy enters SizeRolling or DateRolling
\* (api names the function that is running); a value that matches no case
\* returns at once
CallInit(t) ==
    /\ CanCall(t)
    /\ \E a \in RollingArgs :
        Called(t, IF a.rollingBy = RollingBySize THEN Frame("SizeRolling", "size_logger", a)
                  ELSE IF a.rollingBy = RollingByDate THEN Frame("DateRolling", "date_rotate", a)
                  ELSE IdleFrame,
               "explicit")
    /\ UNCHANGED <<Logger, Sugar, once, env, goos, process, stdout, lv, rot>>

CallSizeRolling(t) ==
    /\ CanCall(t)
    /\ \E a \in RollingArgs :
        /\ a.rollingBy = RollingBySize
        /\ Called(t, Frame("SizeRolling", "size_logger", a), "explicit")
    /\ UNCHANGED <<Logger, Sugar, once, env, goos, process, stdout, lv, rot>>

CallDateRolling(t) ==
    /\ CanCall(t)
    /\ \E a \in RollingArgs :
        /\ a.rollingBy = RollingByDate
        /\ Called(t, Frame("DateRolling", "date_rotate", a), "explicit")
    /\ UNCHANGED <<Logger, Sugar, once, env, goos, process, stdout, lv, rot>>

CallDefault(t) ==
    /\ CanCall(t)
    /\ Called(t, Frame("Default", "once_do", NoArgs), "directDefault")
    /\ UNCHANGED <<Logger, Sugar, once, env, goos, process, stdout, lv, rot>>

\* a log function is called; after records whether an explicit install had
\* returned by then
CallLog(t) ==
    /\ CanCall(t)
    /\ \E fn \in SpecLogFns :
        /\ th' = [th EXCEPT ![t] = Frame(fn, "log_check", [after |-> hist.explicitDone])]
        /\ hist' = Counted(t)
    /\ UNCHANGED <<Logger, Sugar, once, env, goos, process, stdout, lv, rot>>

\* -------------------------------------------------------------- SizeRolling
\* SizeRolling up to Logger = zap.New(...)
SizeLogger(t) ==
    /\ At(t, "size_logger")
    /\ LET a == th[t].args
           parsed == logLv(a.logLevel)
       IN /\ stdout' = stdout \cup {parsed.out[i] : i \in 1..Len(parsed.out)}
          /\ Logger' = RollingLogger("SizeRolling", Lumberjack(a), parsed.level, a.stdout)
    /\ th' = [th EXCEPT ![t].pc = "size_sugar", ![t].args = NoArgs]
    /\ UNCHANGED <<Sugar, once, env, goos, process, hist, lv, rot>>

\* SizeRolling: Sugar = Logger.Sugar(), reading the global Logger
SizeSugar(t) ==
    /\ At(t, "size_sugar")
    /\ Sugar' = SugarOf(Logger)
    /\ Return(t)
    /\ hist' = [hist EXCEPT !.explicitDone = TRUE]
    /\ UNCHANGED <<Logger, once, env, goos, process, stdout, lv, rot>>

\* -------------------------------------------------------------- DateRolling
\* a faulty variant of DateRotate: the error of RotateLogs is dropped
DateRotateIgnoreErr(t) ==
    /\ At(t, "date_rotate")
    /\ \E ok \in BOOLEAN :
        LET a == th[t].args
            w == RotateLogs(goos, a.filename, ToUint(a.retention[1]), a.retention[2])
        IN th' = [th EXCEPT ![t].writer = IF ok THEN Ptr(w) ELSE Nil,
                            ![t].err = IF ok THEN Nil ELSE Ptr("rotatelogs.New"),
                            ![t].pc = "date_logger"]
    /\ UNCHANGED <<Logger, Sugar, once, env, goos, process, stdout, hist, lv, rot>>

\* a faulty variant of DateRotate: a failed setup clears the global logger first
DateRotateReset(t) ==
    /\ At(t, "date_rotate")
    /\ \E ok \in BOOLEAN :
        LET a == th[t].args
            w == RotateLogs(goos, a.filename, ToUint(a.retention[1]), a.retention[2])
        IN /\ th' = [th EXCEPT ![t].writer = IF ok THEN Ptr(w) ELSE Nil,
                               ![t].err = IF ok THEN Nil ELSE Ptr("rotatelogs.New"),
                               ![t].pc = IF ok THEN "date_logger" ELSE "panicking"]
           /\ Logger' = IF ok THEN Logger ELSE Nil
           /\ Sugar' = IF ok THEN Sugar ELSE Nil
    /\ UNCHANGED <<once, env, goos, process, stdout, hist, lv, rot>>

\* DateRolling: rotateLogs, err := RotateLogs(...); a non-nil err panics.
\* Whether rotatelogs.New accepts the pattern is the library's answer.
DateRotate(t) ==
    /\ At(t, "date_rotate")
    /\ \E ok \in BOOLEAN :
        LET a == th[t].args
            w == RotateLogs(goos, a.filename, ToUint(a.retention[1]), a.retention[2])
        IN th' = [th EXCEPT ![t].writer = IF ok THEN Ptr(w) ELSE Nil,
                            ![t].err = IF ok THEN Nil ELSE Ptr("rotatelogs.New"),
                            ![t].pc = IF ok THEN "date_logger" ELSE "panicking"]
    /\ UNCHANGED <<Logger, Sugar, once, env, goos, process, stdout, hist, lv, rot>>

\* DateRolling from level := logLv(logLevel) to Logger = zap.New(...); the
\* writer is the one RotateLogs returned (a nil one only if err was ignored)
DateLogger(t) ==
    /\ At(t, "date_logger")
    /\ LET a == th[t].args
           parsed == logLv(a.logLevel)
       IN /\ stdout' = stdout \cup {parsed.out[i] : i \in 1..Len(parsed.out)}
          /\ Logger' = RollingLogger("DateRolling",
                                     IF th[t].writer = Nil THEN [kind |-> "nil"]
                                     ELSE Deref(th[t].writer),
                                     parsed.level, a.stdout)
    /\ th' = [th EXCEPT ![t].pc = "date_sugar", ![t].args = NoArgs, ![t].writer = Nil]
    /\ UNCHANGED <<Sugar, once, env, goos, process, hist, lv, rot>>

\* DateRolling: Sugar = Logger.Sugar(), reading the global Logger
DateSugar(t) ==
    /\ At(t, "date_sugar")
    /\ Sugar' = SugarOf(Logger)
    /\ Return(t)
    /\ hist' = [hist EXCEPT !.explicitDone = TRUE]
    /\ UNCHANGED <<Logger, once, env, goos, process, stdout, lv, rot>>

\* ------------------------------------------------------------------- panics
\* a panic reaches a deferred recover() of the caller: the goroutine goes on
PanicRecovered(t) ==
    /\ At(t, "panicking")
    /\ th' = [th EXCEPT ![t] = [IdleFrame EXCEPT !.pc = "recovered", !.err = th[t].err]]
    /\ UNCHANGED <<Logger, Sugar, once, env, goos, process, stdout, hist, lv, rot>>

\* the caller goes on after its recover()
AfterRecover(t) ==
    /\ At(t, "recovered")
    /\ Return(t)
    /\ UNCHANGED <<Logger, Sugar, once, env, goos, process, stdout, hist, lv, rot>>

\* a panic nobody recovers: the runtime ends the process
PanicCrash(t) ==
    /\ At(t, "panicking")
    /\ process' = "crashed"
    /\ UNCHANGED <<Logger, Sugar, once, env, goos, th, stdout, hist, lv, rot>>

\* ------------------------------------------------------------------ Default
\* a faulty variant of OnceDo: done is set before the body runs, and nobody waits
OnceDoNoWait(t) ==
    /\ At(t, "once_do")
    /\ IF once.done
       THEN Goto(t, "default_ret") /\ UNCHANGED <<once, hist>>
       ELSE /\ once' = [once EXCEPT !.done = TRUE]
            /\ Goto(t, "body_getenv")
            /\ hist' = [hist EXCEPT !.bodyRuns = @ + 1]
    /\ UNCHANGED <<Logger, Sugar, env, goos, process, stdout, lv, rot>>

\* once.Do, the fast path: return when done is set, else take the slow path
OnceDo(t) ==
    /\ At(t, "once_do")
    /\ IF once.done THEN Goto(t, "default_ret") ELSE Goto(t, "once_lock")
    /\ UNCHANGED <<Logger, Sugar, once, env, goos, process, stdout, hist, lv, rot>>

\* once.Do, the slow path: lock the mutex, look at done again, run the body
OnceLock(t) ==
    /\ At(t, "once_lock")
    /\ once.m = 0
    /\ once' = [once EXCEPT !.m = t]
    /\ IF once.done
       THEN Goto(t, "once_unlock") /\ UNCHANGED hist
       ELSE Goto(t, "body_getenv") /\ hist' = [hist EXCEPT !.bodyRuns = @ + 1]
    /\ UNCHANGED <<Logger, Sugar, env, goos, process, stdout, lv, rot>>

\* the body of Default: debugEnabled := os.Getenv("DEBUG")
BodyGetenv(t) ==
    /\ At(t, "body_getenv")
    /\ th' = [th EXCEPT ![t].debugEnabled = Getenv(env), ![t].pc = "body_logger"]
    /\ hist' = [hist EXCEPT !.envAtDefault = env]
    /\ UNCHANGED <<Logger, Sugar, once, env, goos, process, stdout, lv, rot>>

\* the body of Default: Logger = zap.New(core, ...)
BodyLogger(t) ==
    /\ At(t, "body_logger")
    /\ Logger' = DefaultLogger(th[t].debugEnabled)
    /\ th' = [th EXCEPT ![t].pc = "body_sugar", ![t].debugEnabled = <<>>]
    /\ UNCHANGED <<Sugar, once, env, goos, process, stdout, hist, lv, rot>>

\* the body of Default: Sugar = Logger.Sugar(), reading the global Logger
BodySugar(t) ==
    /\ At(t, "body_sugar")
    /\ Sugar' = SugarOf(Logger)
    /\ Goto(t, "once_unlock")
    /\ hist' = [hist EXCEPT !.bodyDone = TRUE]
    /\ UNCHANGED <<Logger, once, env, goos, process, stdout, lv, rot>>

\* once.Do, the deferred calls: done is stored after the body, the mutex unlocked
OnceUnlock(t) ==
    /\ At(t, "once_unlock")
    /\ once' = [done |-> TRUE, m |-> 0]
    /\ Goto(t, "default_ret")
    /\ UNCHANGED <<Logger, Sugar, env, goos, process, stdout, hist, lv, rot>>

\* Default returns: to the log function that called it, or to the caller
DefaultRet(t) ==
    /\ At(t, "default_ret")
    /\ IF th[t].api \in LogFns THEN Goto(t, "log_emit") ELSE Return(t)
    /\ UNCHANGED <<Logger, Sugar, once, env, goos, process, stdout, hist, lv, rot>>

\* ------------------------------------------------------------ log functions
\* a faulty variant of LogCheck: the logger is never looked at, Default never called
LogCheckSkip(t) ==
    /\ At(t, "log_check")
    /\ Goto(t, "log_emit")
    /\ UNCHANGED <<Logger, Sugar, once, env, goos, process, stdout, hist, lv, rot>>

\* Info .. Fatalf: if Sugar == nil { Default() }
LogCheck(t) ==
    /\ At(t, "log_check")
    /\ IF Sugar = Nil THEN Goto(t, "once_do") ELSE Goto(t, "log_emit")
    /\ UNCHANGED <<Logger, Sugar, once, env, goos, process, stdout, hist, lv, rot>>

\* Info .. Fatalf: Sugar.Xxx(args...).  A nil Sugar is a nil pointer
\* dereference; Fatal and Fatalf end the process after the record.
LogEmit(t) ==
    /\ At(t, "log_emit")
    /\ IF Sugar = Nil
       THEN /\ th' = [th EXCEPT ![t].pc = "panicking",
                                ![t].err = Ptr("nil pointer dereference")]
            /\ UNCHANGED process
       ELSE /\ th' = [th EXCEPT ![t].pc = "log_ret",
                                ![t].emitted =
                                    Ptr([via |-> Deref(Sugar).base,
                                         written |-> WrittenBy(Deref(Sugar).base,
                                                               LevelOfFn(th[t].api))])]
            /\ process' = IF LevelOfFn(th[t].api) = FatalLevel THEN "exited" ELSE process
    /\ UNCHANGED <<Logger, Sugar, once, env, goos, stdout, hist, lv, rot>>

\* the log function returns to its caller
LogRet(t) ==
    /\ At(t, "log_ret")
    /\ Return(t)
    /\ UNCHANGED <<Logger, Sugar, once, env, goos, process, stdout, hist, lv, rot>>

Next ==
    \E t \in Threads :
        \/ Setenv(t)
        \/ CallInit(t)
        \/ CallSizeRolling(t)
        \/ CallDateRolling(t)
        \/ CallDefault(t)
        \/ CallLog(t)
        \/ SizeLogger(t)
        \/ SizeSugar(t)
        \/ DateRotate(t)
        \/ DateLogger(t)
        \/ DateSugar(t)
        \/ PanicRecovered(t)
        \/ AfterRecover(t)
        \/ PanicCrash(t)
        \/ OnceDo(t)
        \/ OnceLock(t)
        \/ BodyGetenv(t)
        \/ BodyLogger(t)
        \/ BodySugar(t)
        \/ OnceUnlock(t)
        \/ DefaultRet(t)
        \/ LogCheck(t)
        \/ LogEmit(t)
        \/ LogRet(t)

Spec == Init /\ [][Next]_vars

\* ------------------------------------------------------- logLv on its own
RECURSIVE StringsOfLen(_, _)
StringsOfLen(alphabet, n) ==
    IF n = 0 THEN {<<>>}
    ELSE {<<c>> \o r : c \in alphabet, r \in StringsOfLen(alphabet, n - 1)}

StringsUpTo(alphabet, n) == UNION {StringsOfLen(alphabet, k) : k \in 0..n}

LowerChar(c) ==
    IF \E i \in 1..Len(Upper) : Upper[i] = c
    THEN Lower[CHOOSE i \in 1..Len(Upper) : Upper[i] = c]
    ELSE c

RECURSIVE Variants(_)
\* a level name written in every mixture of upper and lower case
Variants(name) ==
    IF name = <<>> THEN {<<>>}
    ELSE {<<c>> \o r : c \in {name[1], LowerChar(name[1])}, r \in Variants(Tail(name))}

LevelNames == {[name |-> S_DEBUG, level |-> DebugLevel],
               [name |-> S_INFO, level |-> InfoLevel],
               [name |-> S_WARN, level |-> WarnLevel],
               [name |-> S_ERROR, level |-> ErrorLevel],
               [name |-> S_DPANIC, level |-> DPanicLevel],
               [name |-> S_PANIC, level |-> PanicLevel],
               [name |-> S_FATAL, level |-> FatalLevel]}

Recognized(s) == \E n \in LevelNames : s \in Variants(n.name)

LvAlphabet == {"i", "N", "f", "O", "0", " "}

LevelInputs ==
    UNION {Variants(n.name) : n \in LevelNames}
    \cup StringsUpTo(LvAlphabet, MaxLvLen)
    \cup {<<"W","A","R","N","I","N","G">>, <<"t","r","a","c","e">>,
          <<"I","N","F","O"," ">>, <<"d","e","b","u">>}

InitLv ==
    /\ MainInit
    /\ env = Nil
    /\ goos = "linux"
    /\ rot = [pc |-> "off", in |-> Nil, out |-> Nil]
    /\ \E s \in LevelInputs : lv = [pc |-> "ready", in |-> s, out |-> Nil]

\* level := logLv(logLevel)
LvCall ==
    /\ lv.pc = "ready"
    /\ lv' = [lv EXCEPT !.pc = "done", !.out = Ptr(logLv(lv.in))]
    /\ UNCHANGED <<Logger, Sugar, once, env, goos, process, th, stdout, hist, rot>>

NextLv == LvCall

SpecLv == InitLv /\ [][NextLv]_vars

\* -------------------------------------------------- RotateLogs on its own
App == <<"a","p","p">>
PathAlphabet == {"a", ".", "/", "\\"}
ExamplePaths == {AppLog, App, <<"l","o","g","s",".","d","/","a","p","p">>}
ExampleRetention == {<<10, 3>>, <<3, 10>>, <<3, 3>>}

RotateInputs ==
    [filePath : StringsUpTo(PathAlphabet, MaxPathLen),
     maxBackups : {r[1] : r \in ExampleRetention},
     maxAge : {r[2] : r \in ExampleRetention}]
    \cup [filePath : ExamplePaths, maxBackups : IntRange, maxAge : IntRange]

InitRot ==
    /\ MainInit
    /\ env = Nil
    /\ goos \in {"linux", "windows"}
    /\ lv = [pc |-> "off", in |-> <<>>, out |-> Nil]
    /\ \E i \in RotateInputs : rot = [pc |-> "ready", in |-> Ptr(i), out |-> Nil]

\* DateRolling: rotateLogs, err := RotateLogs(filename, uint(maxBackups), maxAge)
RotCall ==
    /\ rot.pc = "ready"
    /\ LET i == Deref(rot.in)
       IN rot' = [rot EXCEPT !.pc = "done",
                             !.out = Ptr(RotateLogs(goos, i.filePath,
                                                    ToUint(i.maxBackups), i.maxAge))]
    /\ UNCHANGED <<Logger, Sugar, once, env, goos, process, th, stdout, hist, lv>>

NextRot == RotCall

SpecRot == InitRot /\ [][NextRot]_vars

\* ------------------------------------------------------------------ claims
BodyPcs == {"body_getenv", "body_logger", "body_sugar"}

OriginOf(logger) == Deref(logger).origin

IsDefault(logger) == logger # Nil /\ OriginOf(logger) = "Default"

IsExplicit(logger) == logger # Nil /\ OriginOf(logger) # "Default"

RotationFailed(t) == th[t].err = Ptr("rotatelogs.New")

\* C1: under any number of concurrent Default() calls the body that builds
\* the default logger runs at most once, one goroutine at a time, and a call
\* of Default returns only after that body has completed, with Logger and
\* Sugar both assigned.
C1_DefaultRunsOnce ==
    /\ hist.bodyRuns <= 1
    /\ Cardinality({t \in Threads : th[t].pc \in BodyPcs}) <= 1
    /\ \A t \in Threads :
        th[t].pc = "default_ret" =>
            /\ once.done
            /\ hist.bodyDone
            /\ Logger # Nil
            /\ Sugar # Nil

\* C1 witness: one goroutine has returned from Default, which ran the body,
\* while a second one that entered Default concurrently is on the slow path.
C1_Witness ==
    \E t, u \in Threads :
        /\ t # u
        /\ th[t].pc = "default_ret"
        /\ th[u].pc = "once_unlock"
        /\ hist.bodyRuns = 1

\* C2 (the claim as stated): a log function never replaces an explicitly
\* configured logger by the default one, that is, when the Default body run
\* on behalf of a log call assigns Logger, no logger built by SizeRolling or
\* DateRolling is in the slot.
C2_LogCallKeepsExplicit ==
    [][\A t \in Threads :
          (/\ th[t].pc = "body_logger"
           /\ th'[t].pc = "body_sugar"
           /\ th[t].api \in LogFns)
          => ~IsExplicit(Logger)]_vars

C4_EmitThroughSugar ==
    \A t \in Threads :
        /\ th[t].err # Ptr("nil pointer dereference")
        /\ th[t].pc = "log_emit" => Sugar # Nil
        /\ th[t].pc = "log_ret" =>
            /\ Deref(th[t].emitted).via # Nil
            /\ ~hist.explicit => IsDefault(Deref(th[t].emitted).via)

\* C4 witness: two first-use log calls race with no Init ever made; one has
\* emitted through the default logger and the other is about to emit.
C4_Witness ==
    \E t, u \in Threads :
        /\ t # u
        /\ ~hist.explicit
        /\ ~hist.directDefault
        /\ th[t].pc = "log_ret"
        /\ th[u].pc = "log_emit"
        /\ th[u].api \in LogFns

\* C5 (the claim as stated): after a rotation-setup failure the process is
\* over and no caller goes on.
C5_FailureEndsProcess ==
    \A t \in Threads : RotationFailed(t) => th[t].pc # "recovered"

\* C5 (amended): a rotation-setup failure is a panic: the failing call
\* builds and installs no logger and returns nothing; the process is ended
\* by that panic unless a caller recovers it.
C5_FailurePanics ==
    /\ \A t \in Threads :
        RotationFailed(t) =>
            /\ th[t].pc \in {"panicking", "recovered"}
            /\ th[t].writer = Nil
    /\ process = "crashed" => \E t \in Threads : th[t].pc = "panicking"

\* C5 witness: DateRolling failed, nobody recovered, the process is gone
\* and no logger was installed.
C5_Witness ==
    /\ process = "crashed"
    /\ \E t \in Threads : RotationFailed(t) /\ th[t].api = "DateRolling"
    /\ Logger = Nil
    /\ Sugar = Nil

EnvIsSet(e) == e # Nil /\ Len(Deref(e)) > 0

LoggersInUse ==
    {Logger} \cup (IF Sugar = Nil THEN {} ELSE {Deref(Sugar).base})
    \cup {Deref(th[t].emitted).via : t \in {u \in Threads : th[u].emitted # Nil}}

\* C6: the default logger has level DEBUG if DEBUG was set to a non-empty
\* string when Default read it and INFO if it was unset or empty; a Debug or
\* Debugf record sent through it is written exactly in the first case; the
\* level stays whatever DEBUG becomes later.
C6_DefaultLevel ==
    /\ \A l \in LoggersInUse :
        IsDefault(l) =>
            /\ Len(Deref(l).cores) = 1
            /\ Deref(l).cores[1].level =
                 IF EnvIsSet(hist.envAtDefault) THEN DebugLevel ELSE InfoLevel
    /\ \A t \in Threads :
        (/\ th[t].pc = "log_ret"
         /\ th[t].api \in {"Debug", "Debugf"}
         /\ IsDefault(Deref(th[t].emitted).via))
        => (Deref(th[t].emitted).written # {} <=> EnvIsSet(hist.envAtDefault))

\* C6 witness: a Debugf record was written by a default logger built while
\* DEBUG was set, and DEBUG has been unset since.
C6_Witness ==
    \E t \in Threads :
        /\ th[t].pc = "log_ret"
        /\ th[t].api = "Debugf"
        /\ IsDefault(Deref(th[t].emitted).via)
        /\ Deref(th[t].emitted).written # {}
        /\ ~EnvIsSet(env)

\* C7: logLv is total and case-insensitive: the result is one of the seven
\* levels, a level name in any letter case gives its own level, the empty
\* string and every unrecognized string give INFO, and a warning is printed
\* only for an unrecognized non-empty string.
C7_LogLvTotal ==
    lv.pc = "done" =>
        LET r == Deref(lv.out) IN
        /\ r.level \in Levels
        /\ \A n \in LevelNames : lv.in \in Variants(n.name) => r.level = n.level
        /\ (lv.in = <<>> \/ ~Recognized(lv.in)) => r.level = InfoLevel
        /\ r.out # <<>> => (lv.in # <<>> /\ ~Recognized(lv.in) /\ r.out = <<lv.in>>)

\* C7 witness: a level name in mixed case was parsed to its own level.
C7_Witness ==
    /\ lv.pc = "done"
    /\ lv.in = <<"d","P","a","N","i","c">>
    /\ Deref(lv.out).level = DPanicLevel
    /\ Deref(lv.out).out = <<>>

C9_RoutedThroughInit ==
    \A t \in Threads :
        (/\ th[t].pc = "log_ret"
         /\ th[t].args.after
         /\ ~hist.directDefault)
        => IsExplicit(Deref(th[t].emitted).via)

\* the index of the dot that starts the extension of the last path element,
\* or one past the end when that element has no dot
ExtStart(os, path) ==
    LET n == Len(path)
        dots == {i \in 1..n :
                    /\ path[i] = "."
                    /\ \A j \in (i + 1)..n :
                        path[j] # "." /\ ~IsPathSeparator(os, path[j])
                    /\ \A j \in i..n : ~IsPathSeparator(os, path[j])}
    IN IF dots = {} THEN n + 1 ELSE CHOOSE i \in dots : TRUE

\* C10: the pattern is the path with ".%Y%m%d" inserted right before the
\* extension of its last element, or appended when that element has none;
\* taking the inserted suffix out again gives the path, which is the link
\* name; "app.log" gives "app.%Y%m%d.log" and "app" gives "app.%Y%m%d".
C10_Pattern ==
    rot.pc = "done" =>
        LET path == Deref(rot.in).filePath
            out == Deref(rot.out)
            at == ExtStart(goos, path)
            k == Len(dateRollingSuffix)
        IN /\ out.pattern = SubSeq(path, 1, at - 1) \o dateRollingSuffix
                            \o SubSeq(path, at, Len(path))
           /\ SubSeq(out.pattern, 1, at - 1)
                \o SubSeq(out.pattern, at + k, Len(out.pattern)) = path
           /\ out.linkName = path
           /\ path = AppLog =>
                out.pattern = <<"a","p","p",".","%","Y","%","m","%","d",".","l","o","g">>
           /\ path = App => out.pattern = <<"a","p","p",".","%","Y","%","m","%","d">>

\* C10 witness: a path with a dot in a directory name and none in its last
\* element got the suffix at the end.
C10_Witness ==
    /\ rot.pc = "done"
    /\ Deref(rot.in).filePath = <<"a", ".", "/", "a">>
    /\ Deref(rot.out).pattern = <<"a", ".", "/", "a">> \o dateRollingSuffix

====
